---- MODULE Spec2Model ----
(***************************************************************************)
(* Model of flygym's NeuroMechFlyMuJoCo environment                        *)
(* (src/flygym/envs/nmf_mujoco.py) and of the collision presets            *)
(* (src/flygym/util/config.py).                                            *)
(*                                                                         *)
(* Strings are sequences of tokens: an f-string is the concatenation of    *)
(* its parts and Python's `in` on strings is contiguous containment.       *)
(* Times are Python floats.  A float is modelled as a whole number of time *)
(* units (UnitsPerSecond to the second) with at most MantissaBits          *)
(* significant bits; + and / give the exact result rounded to the nearest  *)
(* such number, ties to even, as IEEE 754 does with 53 bits.               *)
(***************************************************************************)
EXTENDS Integers, Sequences, FiniteSets, TLC

VARIABLES
    args,    \* the arguments of __init__ (sim_params included), fixed for the run
    pc,      \* where the instance is: "new", "parsed", "declared", "instantiated",
             \* "ready", or "failed" once __init__ has raised
    self,    \* the attributes of the environment instance
    ret,     \* the last call: its name, what it raised, what it returned
    calls,   \* step and direct get_observation calls since the most recent reset
    disk,    \* the file system: the directories made and the video files written
    trace    \* the edits __init__ has made so far, in the order it made them

vars == <<args, pc, self, ret, calls, disk, trace>>

\* ------------------------------------------------------------------ bounds
MaxGeoms == 3          \* longest explicit geometry-name list given to __init__
MaxSteps == 6          \* step calls per episode (between two resets)
MaxReads == 1          \* direct get_observation calls per episode
UnitsPerSecond == 256  \* time units to the second: the value of the float 1.0
MantissaBits == 5      \* significant bits of a float (53 in a Python float)

\* ----------------------------------------------------------------- strings
\* Python's None
None == [none |-> TRUE]
\* -np.inf as a time stamp: no time stamp is negative, so -1 is free to stand for it
NegInf == -1

\* Python: sub in s, for strings
Contains(sub, s) ==
    \E i \in 0..(Len(s) - Len(sub)) : SubSeq(s, i + 1, i + Len(sub)) = sub

\* Python: x in xs, for lists
InList(x, xs) == \E i \in 1..Len(xs) : xs[i] = x

\* flattening of a list of lists, in order (nested comprehensions)
RECURSIVE Flatten(_)
Flatten(xss) == IF xss = <<>> THEN <<>> ELSE Head(xss) \o Flatten(Tail(xss))

\* --------------------------------------------------- src/flygym/util/config.py
Sides == <<"L", "R">>
Positions == <<"F", "M", "H">>
LegsSegments ==
    <<"Coxa", "Femur", "Tibia", "Tarsus1", "Tarsus2", "Tarsus3", "Tarsus4", "Tarsus5">>
LegsNoCoxaSegments ==
    <<"Femur", "Tibia", "Tarsus1", "Tarsus2", "Tarsus3", "Tarsus4", "Tarsus5">>
TarsiSegments == <<"Tarsus1", "Tarsus2", "Tarsus3", "Tarsus4", "Tarsus5">>

\* f"{side}{pos}{dof}_collision" for side in "LR" for pos in "FMH" for dof in dofs
CollisionNames(dofs) ==
    LET perPos(side, pos) == [k \in 1..Len(dofs) |-> <<side, pos, dofs[k], "_", "collision">>]
        perSide(side) == Flatten([j \in 1..Len(Positions) |-> perPos(side, Positions[j])])
    IN  Flatten([i \in 1..Len(Sides) |-> perSide(Sides[i])])

\* variant of UnknownConfig: an unmatched name is taken as the empty preset
UnknownConfigAsEmpty(config) == [raised |-> "nothing", value |-> <<>>]

\* the else branch: raise ValueError(f"Unknown collision geometry configuration: ...")
UnknownConfig(config) == [raised |-> "ValueError", value |-> None]

\* get_collision_geoms(config): the list it returns, or the exception it raises
get_collision_geoms(config) ==
    IF config = "legs" THEN [raised |-> "nothing", value |-> CollisionNames(LegsSegments)]
    ELSE IF config = "legs-no-coxa"
        THEN [raised |-> "nothing", value |-> CollisionNames(LegsNoCoxaSegments)]
    ELSE IF config = "tarsi" THEN [raised |-> "nothing", value |-> CollisionNames(TarsiSegments)]
    ELSE IF config = "none" THEN [raised |-> "nothing", value |-> <<>>]
    ELSE UnknownConfig(config)

\* ------------------------------------------- the body description (MJCF model)
\* The articulated body loaded by mjcf.from_path: a thorax carrying six legs,
\* each a chain of links; the femur's second degree of freedom sits on a link
\* of its own, which carries no geometry.
Thorax == <<"Thorax">>
LegChain ==
    << <<"Coxa">>, <<"Femur">>, <<"Femur", "_", "roll">>, <<"Tibia">>, <<"Tarsus1">>,
       <<"Tarsus2">>, <<"Tarsus3">>, <<"Tarsus4">>, <<"Tarsus5">> >>
LegBody(side, pos, k) == <<side, pos>> \o LegChain[k]
LegBodies(side, pos) == [k \in 1..Len(LegChain) |-> LegBody(side, pos, k)]
\* the bodies in document order
ModelBodies ==
    <<Thorax>> \o
    Flatten([i \in 1..Len(Sides) |->
        Flatten([j \in 1..Len(Positions) |-> LegBodies(Sides[i], Positions[j])])])
HasGeoms(body) == ~Contains(<<"_", "roll">>, body)
BodyGeoms(body) ==
    IF HasGeoms(body)
    THEN <<body \o <<"_", "visual">>, body \o <<"_", "collision">> >>
    ELSE <<>>
\* model.find_all("geom"), as names
ModelGeoms == Flatten([i \in 1..Len(ModelBodies) |-> BodyGeoms(ModelBodies[i])])
\* the place of a leg link in its chain
ChainIndex(body) == CHOOSE k \in 1..Len(LegChain) : SubSeq(body, 3, Len(body)) = LegChain[k]
\* body.parent.name; the thorax hangs off the world body
BodyParent(body) ==
    IF body = Thorax THEN <<"world">>
    ELSE IF ChainIndex(body) = 1 THEN Thorax
    ELSE LegBody(body[1], body[2], ChainIndex(body) - 1)
\* [child.name for child in body.all_children() if child.tag == "body"]
BodyChildren(body) ==
    IF body = Thorax
    THEN Flatten([i \in 1..Len(Sides) |->
             [j \in 1..Len(Positions) |-> LegBody(Sides[i], Positions[j], 1)]])
    ELSE IF ChainIndex(body) = Len(LegChain) THEN <<>>
    ELSE <<LegBody(body[1], body[2], ChainIndex(body) + 1)>>
\* model.find("geom", name): the element (its name and its parent body), or None
find_geom(name) ==
    IF InList(name, ModelGeoms)
    THEN [none |-> FALSE, name |-> name, parent |-> SubSeq(name, 1, Len(name) - 2)]
    ELSE None

\* ------------------------------------------- _define_self_contacts (443-482)
\* f"{geom1}_{geom2}"
PairName(geom1, geom2) == geom1 \o <<"_">> \o geom2

\* is_duplicate = f"{geom1}_{geom2}" in self_contact_pairs_names
is_duplicate(geom1, geom2, names) == InList(PairName(geom1, geom2), names)

\* variant of ParentChildExcluded: the test without `body1.name == body2.name`
ParentChildExcludedNoSame(body1, body2) ==
    \/ InList(body1, BodyChildren(body2))
    \/ InList(body2, BodyChildren(body1))
    \/ Contains(body1, BodyParent(body2))
    \/ Contains(body2, BodyParent(body1))

\* the condition under `if not (...)`, lines 465-471
ParentChildExcluded(body1, body2) ==
    \/ body1 = body2
    \/ InList(body1, BodyChildren(body2))
    \/ InList(body2, BodyChildren(body1))
    \/ Contains(body1, BodyParent(body2))
    \/ Contains(body2, BodyParent(body1))

\* the body of the inner loop, lines 448-481; acc is (pairs, names, raised).
\* find returns None for a name the model does not have, and None has no parent.
SelfPairStep(acc, geom1, geom2) ==
    IF geom1 # geom2 /\ ~is_duplicate(geom1, geom2, acc.names)
    THEN IF find_geom(geom1).none \/ find_geom(geom2).none
         THEN [acc EXCEPT !.raised = "AttributeError"]
         ELSE IF ~ParentChildExcluded(find_geom(geom1).parent, find_geom(geom2).parent)
              THEN [acc EXCEPT
                      !.pairs = Append(@, [name |-> PairName(geom1, geom2),
                                           geom1 |-> geom1, geom2 |-> geom2]),
                      !.names = Append(@, PairName(geom1, geom2))]
              ELSE acc
    ELSE acc

\* for geom2 in self_collisions_geoms, from the j-th on; an exception ends the loop
RECURSIVE SelfInnerLoop(_, _, _, _)
SelfInnerLoop(acc, geom1, geoms, j) ==
    IF j > Len(geoms) THEN acc
    ELSE LET next == SelfPairStep(acc, geom1, geoms[j])
         IN  IF next.raised # "nothing" THEN next
             ELSE SelfInnerLoop(next, geom1, geoms, j + 1)

\* for geom1 in self_collisions_geoms, from the i-th on
RECURSIVE SelfOuterLoop(_, _, _)
SelfOuterLoop(acc, geoms, i) ==
    IF i > Len(geoms) THEN acc
    ELSE LET next == SelfInnerLoop(acc, geoms[i], geoms, 1)
         IN  IF next.raised # "nothing" THEN next
             ELSE SelfOuterLoop(next, geoms, i + 1)

_define_self_contacts(self_collisions_geoms) ==
    SelfOuterLoop([pairs |-> <<>>, names |-> <<>>, raised |-> "nothing"],
                  self_collisions_geoms, 1)

\* ------------------------------------------ _define_floor_contacts (484-520)
\* np.mean([a, b], axis=0): each component as the exact fraction <<sum, count>>
MeanFriction(a, b) == [k \in 1..3 |-> <<a[k] + b[k], 2>>]
\* variant of Repeat212: the repetition pattern (2, 2, 1)
Repeat221(m) == <<m[1], m[1], m[2], m[2], m[3]>>

\* np.repeat(m, (2, 1, 2))
Repeat212(m) == <<m[1], m[1], m[2], m[3], m[3]>>

\* variant of is_ground: only the visual tag is looked for
is_ground_visual_only(geom) ==
    ~geom.named \/ ~Contains(<<"visual">>, geom.name)

\* is_ground, lines 490-492, of a geometry element [named, name]
is_ground(geom) ==
    ~geom.named \/ ~(Contains(<<"visual">>, geom.name) \/ Contains(<<"collision">>, geom.name))

\* the body of the inner loop, lines 495-518, for the geometry at arena_geoms[g]
FloorPairStep(acc, g, animat_geom_name, fly_friction, arena_friction) ==
    LET geom == acc.geoms[g]
        named == IF geom.named THEN geom
                 ELSE [named |-> TRUE,
                       name |-> <<"groundblock", "_", ToString(acc.ground_id)>>]
        pname == PairName(named.name, animat_geom_name)
    IN  [acc EXCEPT
           !.geoms[g] = named,
           !.ground_id = IF geom.named THEN @ ELSE @ + 1,
           !.pairs = Append(@, [name |-> pname,
                                geom1 |-> <<"Animat", "/">> \o animat_geom_name,
                                geom2 |-> named.name,
                                friction |-> Repeat212(MeanFriction(fly_friction,
                                                                    arena_friction))]),
           !.names = Append(@, pname)]

RECURSIVE FloorInnerLoop(_, _, _, _, _, _)
FloorInnerLoop(acc, g, floor_geoms, j, fly_friction, arena_friction) ==
    IF j > Len(floor_geoms) THEN acc
    ELSE FloorInnerLoop(
             FloorPairStep(acc, g, floor_geoms[j], fly_friction, arena_friction),
             g, floor_geoms, j + 1, fly_friction, arena_friction)

RECURSIVE FloorOuterLoop(_, _, _, _, _)
FloorOuterLoop(acc, g, floor_geoms, fly_friction, arena_friction) ==
    IF g > Len(acc.geoms) THEN acc
    ELSE FloorOuterLoop(
             IF is_ground(acc.geoms[g])
             THEN FloorInnerLoop(acc, g, floor_geoms, 1, fly_friction, arena_friction)
             ELSE acc,
             g + 1, floor_geoms, fly_friction, arena_friction)

\* geoms is arena_root.find_all("geom"); the result carries the geometries back,
\* since the loop names the nameless ones in place
_define_floor_contacts(floor_collisions_geoms, geoms, fly_friction, arena_friction) ==
    FloorOuterLoop([pairs |-> <<>>, names |-> <<>>, geoms |-> geoms, ground_id |-> 0],
                   1, floor_collisions_geoms, fly_friction, arena_friction)

\* ------------------------------------------- _parse_collision_specs (402-414)
\* a collision spec is a Python value: a str (its text), or a list or a tuple (its items)
IsStr(x) == x.type = "str"
IsList(x) == x.type = "list"

_parse_collision_specs(collision_spec) ==
    IF IsStr(collision_spec) /\ collision_spec.text = "all"
    THEN [raised |-> "nothing",
          value |-> SelectSeq(ModelGeoms, LAMBDA n : Contains(<<"collision">>, n))]
    ELSE IF IsStr(collision_spec) THEN get_collision_geoms(collision_spec.text)
    ELSE IF IsList(collision_spec) THEN [raised |-> "nothing", value |-> collision_spec.items]
    ELSE [raised |-> "ValueError", value |-> None]

\* ------------------------------------------------------- the physics engine
\* The engine is an external service. Its state is the joint positions, each
\* one of QposValues; reset restores the default position 0 of every joint, a
\* step moves each actuated joint by its control target (deterministically),
\* and a rendered image is decided by the camera and the physical state.
ModelJoints == {"joint_LFCoxa", "joint_LFFemur", "joint_LFTarsus2"}
QposValues == {0, 1}
PhysicsReset(physics) == [physics EXCEPT !.qpos = [j \in ModelJoints |-> 0]]
PhysicsStep(physics, actuated_joints, ctrl) ==
    [physics EXCEPT !.qpos =
        [j \in ModelJoints |->
            IF \E i \in 1..Len(actuated_joints) : actuated_joints[i] = j
            THEN LET i == CHOOSE i \in 1..Len(actuated_joints) : actuated_joints[i] = j
                 IN  (physics.qpos[j] + ctrl[i]) % Cardinality(QposValues)
            ELSE physics.qpos[j]]]
PhysicsRender(physics, camera) == [none |-> FALSE, camera |-> camera, qpos |-> physics.qpos]

\* --------------------------------------------------- _set_init_pose (611-617)
\* variant of _set_init_pose: every entry of the mapping that names a joint is applied
_set_init_pose_unactuated(a, physics) ==
    [physics EXCEPT !.qpos =
        [j \in ModelJoints |->
            IF j \in DOMAIN a.init_pose THEN a.init_pose[j] ELSE physics.qpos[j]]]

\* actuators[i].joint.name is actuated_joints[i]: the actuator found for a joint
_set_init_pose(a, physics) ==
    [physics EXCEPT !.qpos =
        [j \in ModelJoints |->
            IF (\E i \in 1..Len(a.actuated_joints) : a.actuated_joints[i] = j)
               /\ j \in DOMAIN a.init_pose
            THEN a.init_pose[j]
            ELSE physics.qpos[j]]]

\* ------------------------------------------------------------------ floats
RECURSIVE Pow2(_)
Pow2(n) == IF n = 0 THEN 1 ELSE 2 * Pow2(n - 1)

RECURSIVE BitLength(_)
BitLength(x) == IF x = 0 THEN 0 ELSE 1 + BitLength(x \div 2)

\* Python: num / den, the quotient rounded to MantissaBits significant bits,
\* ties to even
FlDiv(num, den) ==
    LET f == num \div den
        k == IF f < Pow2(MantissaBits) THEN 0 ELSE BitLength(f) - MantissaBits
        d == den * Pow2(k)
        q == num \div d
        r == num % d
    IN  (IF 2 * r > d \/ (2 * r = d /\ q % 2 = 1) THEN q + 1 ELSE q) * Pow2(k)

\* Python: a + b on floats (-inf + x = -inf)
FlAdd(a, b) == IF a = NegInf \/ b = NegInf THEN NegInf ELSE FlDiv(a + b, 1)

\* ------------------------------------------------------------ time stamps
\* self._eff_visual_render_interval = 1 / self.sim_params.vision_refresh_rate
_eff_visual_render_interval(a) == FlDiv(UnitsPerSecond, a.vision_refresh_rate)

\* self._eff_render_interval = sim_params.render_playspeed / self.sim_params.render_fps
_eff_render_interval(a) == FlDiv(a.render_playspeed, a.render_fps)

\* variant of VisionNotDue: before the first sample nothing is due
VisionNotDueBeforeFirst(a, s) ==
    \/ s._last_vision_update_time = NegInf
    \/ s.curr_time < FlAdd(s._last_vision_update_time, _eff_visual_render_interval(a))

\* self.curr_time < next_render_time, where
\* next_render_time = self._last_vision_update_time + self._eff_visual_render_interval
VisionNotDue(a, s) ==
    s.curr_time < FlAdd(s._last_vision_update_time, _eff_visual_render_interval(a))

\* variant of RenderNotDue: the comparison made with <=
RenderNotDueInclusive(a, s) ==
    /\ s._last_render_time # NegInf
    /\ s.curr_time <= FlAdd(s._last_render_time, _eff_render_interval(a))

\* self.curr_time < self._last_render_time + self._eff_render_interval
RenderNotDue(a, s) ==
    s.curr_time < FlAdd(s._last_render_time, _eff_render_interval(a))

\* ---------------------------------------------------- _update_vision (711-735)
_update_vision(a, s) ==
    IF VisionNotDue(a, s)
    THEN [s EXCEPT !._vision_update_mask = Append(@, FALSE)]
    ELSE [s EXCEPT
            !._vision_update_mask = Append(@, TRUE),
            !.curr_visual_input = PhysicsRender(s.physics, "eyes"),
            !._last_vision_update_time = s.curr_time]

\* variant of vision_update_mask: the whole list is exposed
vision_update_mask_whole(s) == s._vision_update_mask

\* the vision_update_mask property (737-739): _vision_update_mask[1:]
vision_update_mask(s) ==
    IF s._vision_update_mask = <<>> THEN <<>> ELSE Tail(s._vision_update_mask)

\* --------------------------------------------------- get_observation (741-797)
\* variant of get_observation: the vision update is made whether vision is enabled or not
get_observation_sampling(a, s) ==
    LET joints == [i \in 1..Len(a.actuated_joints) |-> s.physics.qpos[a.actuated_joints[i]]]
        s1 == _update_vision(a, s)
    IN  [self |-> s1,
         obs |-> IF a.enable_vision
                 THEN [joints |-> joints, vision |-> s1.curr_visual_input]
                 ELSE [joints |-> joints]]

\* the call's effect on self and the observation it returns
get_observation(a, s) ==
    LET joints == [i \in 1..Len(a.actuated_joints) |-> s.physics.qpos[a.actuated_joints[i]]]
        s1 == IF a.enable_vision THEN _update_vision(a, s) ELSE s
    IN  [self |-> s1,
         obs |-> IF a.enable_vision
                 THEN [joints |-> joints, vision |-> s1.curr_visual_input]
                 ELSE [joints |-> joints]]

\* ------------------------------------------------------------ reset (633-654)
\* variant of ResetFields: the frame buffer is kept
ResetFieldsKeepFrames(a, s) ==
    [s EXCEPT
       !.physics = _set_init_pose(a, PhysicsReset(s.physics)),
       !.curr_time = 0,
       !._last_render_time = NegInf,
       !._last_vision_update_time = NegInf,
       !.curr_visual_input = None,
       !._vision_update_mask = <<>>]

\* variant of ResetFields: the update mask is kept
ResetFieldsKeepMask(a, s) ==
    [s EXCEPT
       !.physics = _set_init_pose(a, PhysicsReset(s.physics)),
       !.curr_time = 0,
       !._frames = <<>>,
       !._last_render_time = NegInf,
       !._last_vision_update_time = NegInf,
       !.curr_visual_input = None]

\* lines 645-653
ResetFields(a, s) ==
    [s EXCEPT
       !.physics = _set_init_pose(a, PhysicsReset(s.physics)),
       !.curr_time = 0,
       !._frames = <<>>,
       !._last_render_time = NegInf,
       !._last_vision_update_time = NegInf,
       !.curr_visual_input = None,
       !._vision_update_mask = <<>>]

\* get_info (835-845)
get_info == [e \in {} |-> 0]

reset(a, s) ==
    LET r == get_observation(a, ResetFields(a, s))
    IN  [self |-> r.self, obs |-> r.obs, info |-> get_info]

\* ------------------------------------------------------------- step (656-692)
\* variant of NextTime: the clock is advanced twice
NextTimeTwice(curr_time, timestep) == FlAdd(FlAdd(curr_time, timestep), timestep)

\* self.curr_time += self.timestep
NextTime(curr_time, timestep) == FlAdd(curr_time, timestep)

\* variant of step: the episode is reported as terminated once time has passed
step_terminating(a, s, action) ==
    LET s1 == [s EXCEPT
                 !.physics = PhysicsStep(s.physics, a.actuated_joints, action),
                 !.curr_time = NextTime(s.curr_time, a.timestep)]
        r == get_observation(a, s1)
    IN  [self |-> r.self, obs |-> r.obs, reward |-> 0, terminated |-> s.curr_time # 0,
         truncated |-> FALSE, info |-> get_info]

step(a, s, action) ==
    LET s1 == [s EXCEPT
                 !.physics = PhysicsStep(s.physics, a.actuated_joints, action),
                 !.curr_time = NextTime(s.curr_time, a.timestep)]
        r == get_observation(a, s1)
    IN  [self |-> r.self, obs |-> r.obs, reward |-> 0, terminated |-> FALSE,
         truncated |-> FALSE, info |-> get_info]

\* ----------------------------------------------------------- render (694-709)
\* variant of render: the time stamp is taken before the mode is looked at
render_stamp_first(a, s) ==
    IF a.render_mode = "headless" THEN [self |-> s, raised |-> "nothing"]
    ELSE IF RenderNotDue(a, s) THEN [self |-> s, raised |-> "nothing"]
    ELSE IF a.render_mode = "saved"
    THEN [self |-> [s EXCEPT
                      !._frames = Append(@, PhysicsRender(s.physics, a.render_camera)),
                      !._last_render_time = s.curr_time],
          raised |-> "nothing"]
    ELSE [self |-> [s EXCEPT !._last_render_time = s.curr_time],
          raised |-> "NotImplementedError"]

render(a, s) ==
    IF a.render_mode = "headless" THEN [self |-> s, raised |-> "nothing"]
    ELSE IF RenderNotDue(a, s) THEN [self |-> s, raised |-> "nothing"]
    ELSE IF a.render_mode = "saved"
    THEN [self |-> [s EXCEPT
                      !._frames = Append(@, PhysicsRender(s.physics, a.render_camera)),
                      !._last_render_time = s.curr_time],
          raised |-> "nothing"]
    ELSE [self |-> s, raised |-> "NotImplementedError"]

\* ------------------------------------------------------- actuators (314-320)
\* the control modes the model file has actuators for, one per joint and mode
ControlModes == {"position", "velocity", "torque"}
ModelActuators == { <<"actuator", "_", c, "_", j>> : c \in ControlModes, j \in ModelJoints }

\* self.model.find("actuator", f"actuator_{control}_{joint}"): the element, or
\* None when the model has none of that name
FindActuator(control, joint) ==
    LET name == <<"actuator", "_", control, "_", joint>>
    IN  IF name \in ModelActuators THEN [none |-> FALSE, name |-> name] ELSE None

\* lines 315-320: the actuators are looked up, then the gain is set on each; the
\* assignment to an attribute of None raises
_define_actuators(control, actuated_joints) ==
    LET found == [i \in 1..Len(actuated_joints) |-> FindActuator(control, actuated_joints[i])]
    IN  IF \E i \in 1..Len(found) : found[i] = None
        THEN [raised |-> "AttributeError", value |-> found]
        ELSE [raised |-> "nothing", value |-> found]

\* ---------------------------------------------------- _define_spaces (416-441)
\* the shapes declared for the fields of an observation
_define_spaces(num_dofs, num_contacts) ==
    [joints |-> <<3, num_dofs>>,
     fly |-> <<4, 3>>,
     contact_forces |-> <<6, num_contacts>>,
     end_effectors |-> <<3 * 6>>]

\* ------------------------------------------------- sensor declarations (522-609)
\* the number of values the engine reports for a sensor of each type
SensorDim == [jointpos |-> 1, jointvel |-> 1, actuatorfrc |-> 1, framepos |-> 3,
              framelinvel |-> 3, framequat |-> 4, frameangvel |-> 3, touch |-> 1]

\* the leg tips (280-282)
end_effector_names == <<"LFTarsus5", "LMTarsus5", "LHTarsus5", "RFTarsus5", "RMTarsus5", "RHTarsus5">>

\* _add_body_sensors (552-565)
_add_body_sensors == <<"framepos", "framelinvel", "framequat", "frameangvel">>

\* _add_end_effector_sensors (567-577)
_add_end_effector_sensors == [i \in 1..Len(end_effector_names) |-> "framepos"]

\* _add_touch_sensors (592-609): one touch sensor per placement
_add_touch_sensors(placements) == [i \in 1..Len(placements) |-> "touch"]

\* physics.bind(sensors).sensordata: the readings of the sensors, one after the
\* other, as one flat array
RECURSIVE SensordataLen(_)
SensordataLen(sensors) ==
    IF sensors = <<>> THEN 0 ELSE SensorDim[Head(sensors)] + SensordataLen(Tail(sensors))

\* the shapes of the arrays get_observation (741-781) puts in the observation:
\* joints is np.zeros((3, len(actuated_joints))), fly stacks the position, the
\* velocity, the Euler angles of the quaternion and the angular velocity,
\* contact_forces is the flat copy of the touch readings, end_effectors the
\* flat readings of the leg-tip sensors
ObservationShapes(a) ==
    [joints |-> <<3, Len(a.actuated_joints)>>,
     fly |-> <<Len(_add_body_sensors), SensorDim["framepos"]>>,
     contact_forces |-> <<SensordataLen(_add_touch_sensors(a.contact_sensor_placements))>>,
     end_effectors |-> <<SensordataLen(_add_end_effector_sensors)>>]

\* the keys of the observation (776-795): the four arrays, odor_intensity with
\* olfaction, vision with vision
ObservationKeys(a) ==
    {"joints", "fly", "contact_forces", "end_effectors"}
        \cup (IF a.enable_olfaction THEN {"odor_intensity"} ELSE {})
        \cup (IF a.enable_vision THEN {"vision"} ELSE {})

\* ------------------------------------------- the edits of __init__ (302-377)
\* an edit is made on the scene description (self.model, self.arena_root: "mjcf")
\* or on the instantiated engine (self.physics: "physics")
Edit(name, on) == [edit |-> name, on |-> on]

\* lines 305-320: the eye cameras with vision, then the gain of each actuator
EyeEdits(a) == IF a.enable_vision THEN <<Edit("eye_cameras", "mjcf")>> ELSE <<>>
ActuatorEdits(a) ==
    IF a.actuated_joints # <<>> THEN <<Edit("actuator_gain", "mjcf")>> ELSE <<>>
\* lines 323-325
ArenaEdits == <<Edit("arena_spawn", "mjcf"), Edit("timestep", "mjcf")>>
\* lines 328-344
ContactEdits == <<Edit("floor_contacts", "mjcf"), Edit("self_contacts", "mjcf")>>
SensorEdits == <<Edit("sensors", "mjcf")>>

\* lines 347-362: the engine is instantiated, then friction, the stiffness and
\* damping of the actuated joints, and gravity are set on it
InstantiateEdits == <<Edit("instantiate", "physics")>>
PhysicsEdits(a) ==
    <<Edit("friction", "physics")>>
        \o (IF a.actuated_joints # <<>>
            THEN <<Edit("joint_stiffness_damping", "physics")>> ELSE <<>>)
        \o <<Edit("gravity", "physics")>>

\* variant of FinishEdits: the initial pose is applied before the tarsi are made compliant
FinishEditsPoseFirst ==
    <<Edit("init_pose", "physics"), Edit("compliant_tarsus", "physics"),
      Edit("reset", "physics")>>

\* lines 365-377
FinishEdits ==
    <<Edit("compliant_tarsus", "physics"), Edit("init_pose", "physics"),
      Edit("reset", "physics")>>

\* ----------------------------------------------------------- the file system
\* a directory is its path, a file path is a directory and a name; the disk
\* holds the directories made and, for each video file opened for writing, the
\* frames written to it
Dir(path) == [none |-> FALSE, path |-> path]
FilePath(dir, name) == [dir |-> dir, name |-> name]
EmptyDisk == [dirs |-> {}, files |-> [p \in {} |-> <<>>]]

\* Path.mkdir(parents=True, exist_ok=True)
mkdir(d, dir) == [d EXCEPT !.dirs = @ \cup {dir}]

\* with imageio.get_writer(path, ...) as writer: writer.append_data(frame) for
\* each frame: the file is opened anew and holds the frames in the order given
write_video(d, path, frames) ==
    [d EXCEPT !.files = [p \in DOMAIN @ \cup {path} |-> IF p = path THEN frames ELSE @[p]]]

\* ------------------------------------------------------- save_video (847-866)
\* the warning does not end the call: the directory is made and the writer
\* opened whatever the mode
save_video(a, s, d, path) ==
    [warned |-> a.render_mode # "saved",
     disk |-> write_video(mkdir(d, path.dir), path, s._frames)]

\* ------------------------------------------------------------ close (868-871)
close(a, s, d) ==
    IF a.render_mode = "saved" /\ a.output_dir # None
    THEN save_video(a, s, d, FilePath(a.output_dir.path, "video.mp4"))
    ELSE [warned |-> FALSE, disk |-> d]

\* ---------------------------------------------------------- __init__ (260-377)
Str(v) == [type |-> "str", text |-> v, items |-> <<>>]
List(v) == [type |-> "list", text |-> "", items |-> v]
Tuple(v) == [type |-> "tuple", text |-> "", items |-> v]

\* ret.pre is kept for reset alone: the call before it, and the clock and the
\* number of frames it found
NoPre == [op |-> "", curr_time |-> 0, frames |-> 0]
Returned(op, out) == [op |-> op, raised |-> "nothing", out |-> out, pre |-> NoPre]
Raised(op, exc) == [op |-> op, raised |-> exc, out |-> None, pre |-> NoPre]

\* the instance before __init__ has set anything
Blank ==
    [floor_collisions |-> <<>>, self_collisions |-> <<>>,
     floor_contacts |-> <<>>, floor_contact_names |-> <<>>,
     self_contacts |-> <<>>, self_contact_names |-> <<>>,
     arena_geoms |-> <<>>,
     physics |-> [instantiated |-> FALSE, qpos |-> [j \in ModelJoints |-> 0]],
     curr_time |-> 0, _last_render_time |-> NegInf, _frames |-> <<>>,
     _last_vision_update_time |-> NegInf, curr_visual_input |-> None,
     _vision_update_mask |-> <<>>,
     observation_space |-> None]

\* lines 284-292: a spec given as a string is resolved, anything else is kept
StoredCollisions(spec) ==
    IF IsStr(spec) THEN get_collision_geoms(spec.text)
    ELSE [raised |-> "nothing", value |-> spec.items]

\* lines 260-292, with output_dir.mkdir(parents=True, exist_ok=True) at 271-272
InitParse ==
    /\ pc = "new"
    /\ LET f == StoredCollisions(args.floor_collisions)
           g == StoredCollisions(args.self_collisions)
       IN  IF f.raised # "nothing"
           THEN pc' = "failed" /\ ret' = Raised("__init__", f.raised) /\ self' = self
           ELSE IF g.raised # "nothing"
           THEN /\ pc' = "failed"
                /\ ret' = Raised("__init__", g.raised)
                /\ self' = [self EXCEPT !.floor_collisions = f.value]
           ELSE /\ pc' = "parsed"
                /\ ret' = ret
                /\ self' = [self EXCEPT !.floor_collisions = f.value,
                                        !.self_collisions = g.value]
    /\ disk' = IF args.output_dir = None THEN disk ELSE mkdir(disk, args.output_dir.path)
    /\ UNCHANGED <<args, calls, trace>>

\* arena_root.find_all("geom") once the fly is attached: the arena's own
\* geometries, then the fly's
ArenaFindAllGeoms(arena_geoms) ==
    arena_geoms \o [i \in 1..Len(ModelGeoms) |-> [named |-> TRUE, name |-> ModelGeoms[i]]]

\* lines 294-344: spaces, model, eye cameras, actuators, arena, contact pairs, sensors
InitDeclare ==
    /\ pc = "parsed"
    /\ LET s0 == [self EXCEPT !.curr_visual_input = None,
                              !._last_vision_update_time = NegInf,
                              !._vision_update_mask = <<>>,
                              !.arena_geoms = args.arena_geoms,
                              !.observation_space =
                                  _define_spaces(Len(args.actuated_joints),
                                                 Len(args.contact_sensor_placements))]
           ac == _define_actuators(args.control, args.actuated_joints)
           fp == _parse_collision_specs(args.floor_collisions)
           fc == _define_floor_contacts(fp.value, ArenaFindAllGeoms(args.arena_geoms),
                                        args.friction, args.arena_friction)
           s1 == [s0 EXCEPT !.floor_contacts = fc.pairs,
                            !.floor_contact_names = fc.names,
                            !.arena_geoms = SubSeq(fc.geoms, 1, Len(args.arena_geoms))]
           sp == _parse_collision_specs(args.self_collisions)
           sc == _define_self_contacts(sp.value)
           e1 == trace \o EyeEdits(args)
           e2 == e1 \o ActuatorEdits(args) \o ArenaEdits
       IN  IF ac.raised # "nothing"
           THEN /\ pc' = "failed" /\ ret' = Raised("__init__", ac.raised) /\ self' = s0
                /\ trace' = e1
           ELSE IF fp.raised # "nothing"
           THEN /\ pc' = "failed" /\ ret' = Raised("__init__", fp.raised) /\ self' = s0
                /\ trace' = e2
           ELSE IF sp.raised # "nothing"
           THEN /\ pc' = "failed" /\ ret' = Raised("__init__", sp.raised) /\ self' = s1
                /\ trace' = e2 \o SubSeq(ContactEdits, 1, 1)
           ELSE IF sc.raised # "nothing"
           THEN /\ pc' = "failed" /\ ret' = Raised("__init__", sc.raised) /\ self' = s1
                /\ trace' = e2 \o SubSeq(ContactEdits, 1, 1)
           ELSE /\ pc' = "declared"
                /\ ret' = ret
                /\ self' = [s1 EXCEPT !.self_contacts = sc.pairs,
                                      !.self_contact_names = sc.names]
                /\ trace' = e2 \o ContactEdits \o SensorEdits
    /\ UNCHANGED <<args, calls, disk>>

\* lines 346-362: the engine is instantiated, then friction, stiffness, damping
\* and gravity are set on it; the scan of the geometry names fails on a nameless one
InitPhysics ==
    /\ pc = "declared"
    /\ IF \E g \in 1..Len(self.arena_geoms) : ~self.arena_geoms[g].named
       THEN /\ pc' = "failed"
            /\ ret' = Raised("__init__", "TypeError")
            /\ self' = [self EXCEPT !.physics.instantiated = TRUE]
            /\ trace' = trace \o InstantiateEdits
       ELSE /\ pc' = "instantiated"
            /\ ret' = ret
            /\ self' = [self EXCEPT !.physics.instantiated = TRUE]
            /\ trace' = trace \o InstantiateEdits \o PhysicsEdits(args)
    /\ UNCHANGED <<args, calls, disk>>

\* lines 364-377: compliant tarsi (with physics.reset()), the initial pose, the
\* rendering attributes, and the first reset
InitFinish ==
    /\ pc = "instantiated"
    /\ LET s0 == [self EXCEPT
                    !.physics = _set_init_pose(args, PhysicsReset(self.physics)),
                    !.curr_time = 0,
                    !._last_render_time = NegInf,
                    !._frames = <<>>]
           r == reset(args, s0)
       IN  /\ self' = r.self
           /\ ret' = Returned("__init__", [obs |-> r.obs, info |-> r.info])
    /\ pc' = "ready"
    /\ calls' = [step |-> 0, get_observation |-> 0]
    /\ trace' = trace \o FinishEdits
    /\ UNCHANGED <<args, disk>>

\* ------------------------------------------------------- calls on the instance
\* action["joints"]: one control target per actuated joint (the same for all)
Actions == {[i \in 1..Len(args.actuated_joints) |-> v] : v \in QposValues}

Reset ==
    /\ pc = "ready"
    /\ LET r == reset(args, self)
       IN  /\ self' = r.self
           /\ ret' = [Returned("reset", [obs |-> r.obs, info |-> r.info]) EXCEPT
                        !.pre = [op |-> ret.op, curr_time |-> self.curr_time,
                                 frames |-> Len(self._frames)]]
    /\ calls' = [step |-> 0, get_observation |-> 0]
    /\ UNCHANGED <<args, pc, disk, trace>>

Step ==
    /\ pc = "ready"
    /\ calls.step < MaxSteps
    /\ \E action \in Actions :
          LET r == step(args, self, action)
          IN  /\ self' = r.self
              /\ ret' = Returned("step", [obs |-> r.obs, reward |-> r.reward,
                                          terminated |-> r.terminated,
                                          truncated |-> r.truncated, info |-> r.info])
    /\ calls' = [calls EXCEPT !.step = @ + 1]
    /\ UNCHANGED <<args, pc, disk, trace>>

Render ==
    /\ pc = "ready"
    /\ LET r == render(args, self)
       IN  /\ self' = r.self
           /\ ret' = IF r.raised = "nothing" THEN Returned("render", None)
                     ELSE Raised("render", r.raised)
    /\ UNCHANGED <<args, pc, calls, disk, trace>>

GetObservation ==
    /\ pc = "ready"
    /\ calls.get_observation < MaxReads
    /\ LET r == get_observation(args, self)
       IN  /\ self' = r.self
           /\ ret' = Returned("get_observation", [obs |-> r.obs])
    /\ calls' = [calls EXCEPT !.get_observation = @ + 1]
    /\ UNCHANGED <<args, pc, disk, trace>>

\* paths a caller hands to save_video
VideoPaths == {FilePath("videos", "run.mp4")}

SaveVideo ==
    /\ pc = "ready"
    /\ \E path \in VideoPaths :
          LET r == save_video(args, self, disk, path)
          IN  /\ disk' = r.disk
              /\ ret' = Returned("save_video", [path |-> path, warned |-> r.warned])
    /\ UNCHANGED <<args, pc, self, calls, trace>>

Close ==
    /\ pc = "ready"
    /\ LET r == close(args, self, disk)
       IN  /\ disk' = r.disk
           /\ ret' = Returned("close", [warned |-> r.warned])
    /\ UNCHANGED <<args, pc, self, calls, trace>>

\* ------------------------------------------------------------ specifications
\* geometry names an explicit list may hold: leg geometries of the model, two of
\* them on one body, and one name the model does not have
ListGeoms ==
    { <<"L", "F", "Coxa", "_", "collision">>, <<"L", "F", "Coxa", "_", "visual">>,
      <<"L", "F", "Femur", "_", "collision">>, <<"L", "F", "Tibia", "_", "collision">>,
      <<"R", "F", "Coxa", "_", "collision">>, <<"L", "F", "Wing", "_", "collision">> }
GeomLists == UNION {[1..n -> ListGeoms] : n \in 0..MaxGeoms}
PresetNames == {"all", "legs", "legs-no-coxa", "tarsi", "none"}
SpecStrings == {Str(n) : n \in PresetNames \cup {"wings"}}

\* FlatTerrain: one named ground plane; friction in units of 1e-4
FlatTerrainGeoms == << [named |-> TRUE, name |-> <<"ground">>] >>
DefaultFriction == <<10000, 50, 1>>
DefaultPose == [j \in {"joint_LFCoxa", "joint_LFTarsus2", "joint_RHTibia"} |-> 1]

FixedArgs ==
    [actuated_joints : {<<"joint_LFCoxa", "joint_LFFemur">>},
     init_pose : {DefaultPose},
     arena_geoms : {FlatTerrainGeoms},
     arena_friction : {DefaultFriction},
     friction : {DefaultFriction},
     render_camera : {"Animat/camera_left_top"},
     output_dir : {None},
     contact_sensor_placements : {<<"LFTarsus5", "RFTarsus5">>},
     enable_olfaction : {FALSE},
     control : {"position"}]

Extend(r, more) == [k \in DOMAIN r \cup DOMAIN more |-> IF k \in DOMAIN more THEN more[k] ELSE r[k]]

\* timestep = 0.1 and timestep = 0.2, as floats
Timesteps == {FlDiv(UnitsPerSecond, 10), FlDiv(UnitsPerSecond, 5)}

\* the environment loop, over the rendering and vision settings (a setting is
\* varied only where the code reads it)
RunArgs ==
    { Extend(f, m) : f \in FixedArgs, m \in
        { c \in [floor_collisions : {List(<< <<"L", "F", "Tarsus5", "_", "collision">> >>)},
                 self_collisions : {List(<< <<"L", "F", "Tibia", "_", "collision">>,
                                            <<"R", "F", "Tibia", "_", "collision">> >>)},
                 render_mode : {"saved", "headless", "human"},
                 render_playspeed : {UnitsPerSecond},
                 render_fps : {4, 5},
                 enable_vision : BOOLEAN,
                 vision_refresh_rate : {3, 5},
                 timestep : Timesteps] :
            /\ c.render_mode # "saved" => c.render_fps = 4
            /\ ~c.enable_vision => c.vision_refresh_rate = 3
            /\ c.render_fps = 5 => ~c.enable_vision
            /\ c.render_mode = "human" =>
                   ~c.enable_vision /\ c.timestep = FlDiv(UnitsPerSecond, 10) } }

\* the environment loop, over the settings save_video and close read
VideoArgs ==
    { Extend(f, m) : f \in FixedArgs, m \in
        [floor_collisions : {List(<< <<"L", "F", "Tarsus5", "_", "collision">> >>)},
         self_collisions : {List(<< <<"L", "F", "Tibia", "_", "collision">>,
                                    <<"R", "F", "Tibia", "_", "collision">> >>)},
         render_mode : {"saved", "headless"},
         render_playspeed : {UnitsPerSecond},
         render_fps : {4},
         enable_vision : {FALSE},
         vision_refresh_rate : {3},
         timestep : {FlDiv(UnitsPerSecond, 10)},
         output_dir : {None, Dir("out")}] }

\* construction, over the collision specs
ContactArgs ==
    { Extend(f, m) : f \in FixedArgs, m \in
        { c \in [floor_collisions : SpecStrings \cup {Tuple(<<>>)},
                 self_collisions : SpecStrings \cup {Tuple(<<>>)}
                                     \cup {List(l) : l \in GeomLists},
                 render_mode : {"saved"},
                 render_playspeed : {UnitsPerSecond},
                 render_fps : {4},
                 enable_vision : {TRUE},
                 vision_refresh_rate : {3},
                 timestep : {FlDiv(UnitsPerSecond, 10)}] :
            \/ c.floor_collisions = Str("none")
            \/ c.self_collisions \in {Str("none"), Str("wings"), Tuple(<<>>)} } }

\* the environment loop, over the actuated joints and the initial pose
ActuatedLists ==
    { <<>>, <<"joint_LFCoxa">>, <<"joint_LFCoxa", "joint_LFFemur">>,
      <<"joint_LFTarsus2", "joint_LFCoxa">> }
Poses ==
    UNION { [d -> {1}] : d \in { {}, {"joint_LFCoxa"}, {"joint_LFFemur", "joint_LFCoxa"},
                                 {"joint_LFTarsus2", "joint_RHTibia"},
                                 {"joint_LFCoxa", "joint_LFTarsus2", "joint_RHTibia"} } }
PoseArgs ==
    { [r EXCEPT !.actuated_joints = al, !.init_pose = p] :
        r \in { c \in RunArgs : /\ c.render_mode = "headless"
                                /\ ~c.enable_vision
                                /\ c.timestep = FlDiv(UnitsPerSecond, 10) },
        al \in ActuatedLists, p \in Poses }

\* construction, over the control mode and the actuated joints
Controls == ControlModes \cup {"impedance"}
JointLists == ActuatedLists \cup {<<"joint_LFFemur">>, <<"joint_RHTibia">>,
                                  <<"joint_LFCoxa", "joint_RHTibia">>}
ActuatorArgs ==
    { [r EXCEPT !.actuated_joints = al, !.control = c] :
        r \in { c \in RunArgs : /\ c.render_mode = "headless"
                                /\ ~c.enable_vision
                                /\ c.timestep = FlDiv(UnitsPerSecond, 10) },
        al \in JointLists, c \in Controls }

\* construction, over the terrain and the floor-collidable geometries: a
\* terrain holds nameless blocks, a named ground plane and named decorations
\* tagged visual or collision (names are unique in a scene)
Nameless == [named |-> FALSE, name |-> <<>>]
TerrainGeoms ==
    { Nameless,
      [named |-> TRUE, name |-> <<"ground">>],
      [named |-> TRUE, name |-> <<"wall", "_", "visual">>],
      [named |-> TRUE, name |-> <<"ramp", "_", "collision">>] }
Terrains ==
    { t \in UNION {[1..n -> TerrainGeoms] : n \in 0..MaxGeoms} :
        \A i, j \in 1..Len(t) : (i # j /\ t[i].named) => t[i] # t[j] }
FloorSpecs ==
    { Str("none"), Str("tarsi"), List(<<>>),
      List(<< <<"L", "F", "Tarsus5", "_", "collision">> >>),
      List(<< <<"L", "F", "Tarsus5", "_", "collision">>, <<"R", "F", "Coxa", "_", "visual">> >>) }
Frictions == {DefaultFriction, <<3, 1, 4>>}
FloorArgs ==
    { [r EXCEPT !.arena_geoms = t, !.floor_collisions = f,
                !.friction = ff, !.arena_friction = af] :
        r \in { c \in RunArgs : /\ c.render_mode = "headless"
                                /\ ~c.enable_vision
                                /\ c.timestep = FlDiv(UnitsPerSecond, 10) },
        t \in Terrains, f \in FloorSpecs, ff \in Frictions, af \in Frictions }

InitWith(argset) ==
    /\ args \in argset
    /\ pc = "new"
    /\ self = Blank
    /\ ret = Returned("new", None)
    /\ calls = [step |-> 0, get_observation |-> 0]
    /\ disk = EmptyDisk
    /\ trace = <<>>

Init == InitWith(RunArgs)

InitPose == InitWith(PoseArgs)

InitContacts == InitWith(ContactArgs)

InitVideo == InitWith(VideoArgs)

InitActuators == InitWith(ActuatorArgs)

InitFloor == InitWith(FloorArgs)

Construct == InitParse \/ InitDeclare \/ InitPhysics \/ InitFinish

Next == Construct \/ Reset \/ Step \/ Render \/ GetObservation

\* the environment loop with the video output
NextVideo == Next \/ SaveVideo \/ Close

Spec == Init /\ [][Next]_vars

SpecContacts == InitContacts /\ [][Construct]_vars

SpecPose == InitPose /\ [][Next]_vars

SpecVideo == InitVideo /\ [][NextVideo]_vars

SpecActuators == InitActuators /\ [][Construct]_vars

SpecFloor == InitFloor /\ [][Construct]_vars

\* ===================================================================== claims
Ready == pc = "ready"
IsActuated(j) == \E i \in 1..Len(args.actuated_joints) : args.actuated_joints[i] = j

\* the joint positions the configured initial pose gives: the mapped value for a
\* joint that is actuated and in the mapping, the engine's default 0 otherwise
PosedQpos ==
    [j \in ModelJoints |->
        IF IsActuated(j) /\ j \in DOMAIN args.init_pose THEN args.init_pose[j] ELSE 0]

\* the run state a fresh episode starts in: s with every run attribute at its
\* initial value (with vision on, the first observation has sampled the eyes)
FreshOf(s) ==
    [s EXCEPT
       !.physics.qpos = PosedQpos,
       !.curr_time = 0,
       !._last_render_time = NegInf,
       !._frames = <<>>,
       !._last_vision_update_time = IF args.enable_vision THEN 0 ELSE NegInf,
       !.curr_visual_input =
           IF args.enable_vision
           THEN [none |-> FALSE, camera |-> "eyes", qpos |-> PosedQpos]
           ELSE None,
       !._vision_update_mask = IF args.enable_vision THEN <<TRUE>> ELSE <<>>]

\* timestep added up n times from 0, as floats are added
RECURSIVE FlSum(_, _)
FlSum(n, x) == IF n = 0 THEN 0 ELSE FlAdd(FlSum(n - 1, x), x)

C2_ResetRestoresInitialState ==
    Ready =>
        /\ LET r == reset(args, self).self
           IN  /\ r.curr_time = 0
               /\ r._last_render_time = NegInf
               /\ r._frames = <<>>
               /\ vision_update_mask(r) = <<>>
               /\ r.physics.qpos = PosedQpos
               /\ r = FreshOf(self)
        /\ ret.op \in {"__init__", "reset"} => self = FreshOf(self)

C2_Witness ==
    /\ Ready
    /\ ret.op = "reset"
    /\ ret.pre.op = "step"
    /\ ret.pre.curr_time > 0
    /\ ret.pre.frames = 2
    /\ args.enable_vision
    /\ self = FreshOf(self)

\* C3: reset twice in a row gives the same observation and the same state both
\* times, from any state of the run, with vision on or off: a reset made right
\* after a reset returns what the first returned and leaves the state as it was.
C3_ResetIdempotent ==
    Ready =>
        /\ LET first == reset(args, self)
               second == reset(args, first.self)
           IN  /\ second.obs = first.obs
               /\ second.info = first.info
               /\ second.self = first.self
        /\ ret.op = "reset" =>
               LET again == reset(args, self)
               IN  /\ again.obs = ret.out.obs
                   /\ again.info = ret.out.info
                   /\ again.self = self

C3_Witness ==
    /\ Ready
    /\ ret.op = "reset"
    /\ ret.pre.op = "reset"
    /\ args.enable_vision
    /\ args.render_mode = "saved"
    /\ self._vision_update_mask = <<TRUE>>

\* ------------------------------------------------ construction (SpecContacts)
\* the contact pairs have been declared
ContactsDeclared == pc \in {"declared", "instantiated", "ready"}
\* the geometry list the self-contact enumeration is given
SelfInput == _parse_collision_specs(args.self_collisions).value
\* the registered self-contact pairs, as (geom1, geom2)
SelfRegistered ==
    {<<self.self_contacts[k].geom1, self.self_contacts[k].geom2>> :
        k \in 1..Len(self.self_contacts)}
\* the parent link of a geometry of the model
LinkOf(geom) == find_geom(geom).parent
IsPreset(spec) == IsStr(spec) /\ spec.text \in PresetNames
IsUnknownString(spec) == IsStr(spec) /\ spec.text \notin PresetNames

\* C4: no self-contact pair is registered twice, (a,b) and (b,a) being one pair:
\* the registered pairs never hold the same ordered pair at two places, nor a
\* pair together with its mirror image.
C4_NoDuplicatePairs ==
    ContactsDeclared =>
        /\ \A i, j \in 1..Len(self.self_contacts) :
               i # j => <<self.self_contacts[i].geom1, self.self_contacts[i].geom2>>
                          # <<self.self_contacts[j].geom1, self.self_contacts[j].geom2>>
        /\ \A p \in SelfRegistered : <<p[2], p[1]>> \notin SelfRegistered

\* C5: no registered self-contact pair joins geometries of one link, or of a link
\* and its direct parent or child; and every two distinct geometries of the input
\* that pass the exclusion tests (same link, name in the other's children, name
\* contained in the name of the other's parent link) are registered.
C5_SelfContactExclusion ==
    ContactsDeclared =>
        /\ \A p \in SelfRegistered :
               /\ LinkOf(p[1]) # LinkOf(p[2])
               /\ BodyParent(LinkOf(p[1])) # LinkOf(p[2])
               /\ BodyParent(LinkOf(p[2])) # LinkOf(p[1])
        /\ \A i, j \in 1..Len(SelfInput) :
               LET b1 == LinkOf(SelfInput[i])
                   b2 == LinkOf(SelfInput[j])
               IN  (/\ SelfInput[i] # SelfInput[j]
                    /\ b1 # b2
                    /\ ~InList(b1, BodyChildren(b2))
                    /\ ~InList(b2, BodyChildren(b1))
                    /\ ~Contains(b1, BodyParent(b2))
                    /\ ~Contains(b2, BodyParent(b1)))
                   => \/ <<SelfInput[i], SelfInput[j]>> \in SelfRegistered
                      \/ <<SelfInput[j], SelfInput[i]>> \in SelfRegistered

\* an explicit list holding a link and its direct child, of which a pair is
\* registered all the same (with the third geometry)
C5_Witness ==
    /\ ContactsDeclared
    /\ IsList(args.self_collisions)
    /\ Len(SelfInput) = 3
    /\ \A i \in 1..3 : InList(SelfInput[i], ModelGeoms)
    /\ \E i, j \in 1..3 : BodyParent(LinkOf(SelfInput[i])) = LinkOf(SelfInput[j])
    /\ SelfRegistered # {}

\* C6: each of the five preset names is accepted as floor or self spec:
\* construction does not fail on it, and it is resolved to its geometry names
\* ("none" to no name, "all" to the model's collision geometries).
C6_PresetsAccepted ==
    (IsPreset(args.floor_collisions) /\ IsPreset(args.self_collisions)) =>
        /\ pc # "failed"
        /\ pc \notin {"new", "failed"} =>
               /\ args.floor_collisions.text = "none" => self.floor_collisions = <<>>
               /\ args.self_collisions.text = "none" => self.self_collisions = <<>>
               /\ args.floor_collisions.text # "none" => self.floor_collisions # <<>>
               /\ args.self_collisions.text # "none" => self.self_collisions # <<>>

\* C7: a string that is no preset name, given as either spec, makes __init__
\* raise ValueError to the caller before any contact pair is declared and before
\* the engine is instantiated, and no call is possible on the instance.
C7_UnknownPresetFails ==
    (IsUnknownString(args.floor_collisions) \/ IsUnknownString(args.self_collisions)) =>
        /\ pc \in {"new", "failed"}
        /\ self.floor_contacts = <<>> /\ self.self_contacts = <<>>
        /\ ~self.physics.instantiated
        /\ pc = "failed" =>
               /\ ret.op = "__init__" /\ ret.raised = "ValueError"
               /\ ~ENABLED (Reset \/ Step \/ Render \/ GetObservation)

C7_Witness ==
    /\ pc = "failed"
    /\ ret.raised = "ValueError"
    /\ args.floor_collisions = Str("legs")
    /\ args.self_collisions = Str("wings")
    /\ Len(self.floor_collisions) = 48

\* ------------------------------------------------------ the run loop (Spec)
\* curr_time < last + render_playspeed / render_fps
RenderTooEarly(now, last) ==
    now < FlAdd(last, FlDiv(args.render_playspeed, args.render_fps))
\* curr_time < last + 1 / vision_refresh_rate
VisionTooEarly(now, last) ==
    now < FlAdd(last, FlDiv(UnitsPerSecond, args.vision_refresh_rate))

C8_RenderState ==
    /\ (Ready /\ args.render_mode = "saved") =>
           LET r == render(args, self)
           IN  /\ r.raised = "nothing"
               /\ RenderTooEarly(self.curr_time, self._last_render_time) => r.self = self
               /\ ~RenderTooEarly(self.curr_time, self._last_render_time) =>
                      r.self = [self EXCEPT
                                  !._frames = Append(@, [none |-> FALSE,
                                                         camera |-> args.render_camera,
                                                         qpos |-> self.physics.qpos]),
                                  !._last_render_time = self.curr_time]
               /\ (self._frames = <<>>) <=> (self._last_render_time = NegInf)
               /\ self._frames = <<>> => Len(r.self._frames) = 1
    /\ (Ready /\ args.render_mode = "headless") =>
           /\ self._frames = <<>>
           /\ render(args, self) = [self |-> self, raised |-> "nothing"]

C8_RenderStep ==
    /\ (self._last_render_time # NegInf /\ self'._last_render_time # NegInf
            /\ self'._last_render_time # self._last_render_time)
        => ~RenderTooEarly(self'._last_render_time, self._last_render_time)
    /\ Len(self'._frames) > Len(self._frames)
        => ret'.op = "render" /\ Len(self'._frames) = Len(self._frames) + 1

C9_OtherModeRaises ==
    (Ready /\ args.render_mode \notin {"saved", "headless"}) =>
        /\ render(args, self) = [self |-> self, raised |-> "NotImplementedError"]
        /\ self._frames = <<>> /\ self._last_render_time = NegInf
        /\ ret.op = "render" =>
               /\ ret.raised = "NotImplementedError"
               /\ reset(args, self).self = FreshOf(self)
               /\ \A action \in Actions :
                      LET r == step(args, self, action)
                      IN  /\ r.self.curr_time = FlAdd(self.curr_time, args.timestep)
                          /\ r.self.physics =
                                 PhysicsStep(self.physics, args.actuated_joints, action)

C9_Witness ==
    /\ Ready
    /\ args.render_mode = "human"
    /\ ret.op = "render"
    /\ ret.raised = "NotImplementedError"
    /\ calls.step = 3
    /\ self.curr_time = FlSum(3, args.timestep)

\* ceil((1 / R) / dt), the number of ticks from one fresh sample to the next
VisionPeriod ==
    LET interval == FlDiv(UnitsPerSecond, args.vision_refresh_rate)
    IN  (interval + args.timestep - 1) \div args.timestep

\* an observation request appends one marker, by the time elapsed since the
\* last sample
C10_VisionRequest ==
    (Ready /\ args.enable_vision /\ ret'.op \in {"step", "get_observation"}) =>
        /\ IF VisionTooEarly(self'.curr_time, self._last_vision_update_time)
           THEN /\ self'._vision_update_mask = Append(self._vision_update_mask, FALSE)
                /\ self'.curr_visual_input = self.curr_visual_input
                /\ self'._last_vision_update_time = self._last_vision_update_time
           ELSE /\ self'._vision_update_mask = Append(self._vision_update_mask, TRUE)
                /\ self'.curr_visual_input =
                       [none |-> FALSE, camera |-> "eyes", qpos |-> self'.physics.qpos]
                /\ self'._last_vision_update_time = self'.curr_time
        /\ self'._last_vision_update_time # self._last_vision_update_time
               => ~VisionTooEarly(self'._last_vision_update_time,
                                  self._last_vision_update_time)

\* with dt < 1 / R, the tick of a step brings a fresh sample exactly when it is
\* a multiple of ceil((1 / R) / dt)
C10_VisionTicks ==
    (Ready /\ args.enable_vision /\ ret'.op = "step"
        /\ args.timestep < FlDiv(UnitsPerSecond, args.vision_refresh_rate)) =>
        (self'._vision_update_mask[Len(self'._vision_update_mask)]
            <=> calls'.step % VisionPeriod = 0)

\* C10: with vision on, every observation request appends one marker: "no
\* update" (reading and sample time kept) while curr_time is below the last
\* sample time + 1 / vision_refresh_rate, "update happened" (new reading, sample
\* time = curr_time) otherwise; so the time of a fresh sample is never below the
\* time of the one before it + 1 / vision_refresh_rate and, with dt < 1 / R,
\* fresh samples recur every ceil((1 / R) / dt) ticks.
C10_VisionCadence == [][C10_VisionRequest /\ C10_VisionTicks]_vars

\* --------------------------------------------------------- the exposed mask
\* observation reads of the episode: the reset's own, one per step, and the
\* direct ones
ObservationReads == 1 + calls.step + calls.get_observation

\* C11 as stated: in every state of a constructed environment the exposed
\* vision_update_mask is one shorter than the number of observation reads taken
\* (by the reset, by steps, by direct get_observation calls).
C11_MaskLengthAlways ==
    Ready => Len(vision_update_mask(self)) = ObservationReads - 1

C11_MaskState ==
    /\ (Ready /\ args.enable_vision) =>
           /\ Len(vision_update_mask(self)) = ObservationReads - 1
           /\ self._vision_update_mask = <<TRUE>> \o vision_update_mask(self)
           /\ ret.op \in {"__init__", "reset"} => self._vision_update_mask = <<TRUE>>
    /\ (Ready /\ ~args.enable_vision) => vision_update_mask(self) = <<>>

C11_MaskStep ==
    (Ready /\ args.enable_vision /\ ret'.op \in {"step", "get_observation"}) =>
        /\ Len(self'._vision_update_mask) = Len(self._vision_update_mask) + 1
        /\ SubSeq(self'._vision_update_mask, 1, Len(self._vision_update_mask))
               = self._vision_update_mask

\* C11, amended: with vision enabled, the exposed vision_update_mask is one
\* shorter than the number of observation reads of the episode, every read
\* appends one marker behind the ones recorded before, and the marker dropped
\* is the first one, recorded by the reset's own observation; with vision
\* disabled no marker is ever recorded and the exposed mask is empty.
C11_MaskLength == []C11_MaskState /\ [][C11_MaskStep]_vars

\* two steps and a direct read after a reset, vision on
C11_Witness ==
    /\ Ready
    /\ args.enable_vision
    /\ ret.op = "get_observation"
    /\ calls.step = 2
    /\ Len(vision_update_mask(self)) = 3
    /\ Len(self._vision_update_mask) = 4

\* ------------------------------------------------------------ initial pose
\* C12: a reset leaves the mapped value in exactly the joints that are actuated
\* and in the pose mapping, and the engine's default (0) in every other joint;
\* entries of the mapping for a joint that is not actuated or not in the model
\* change nothing and raise nothing; the returned joint observation shows it.
C12_InitPoseApplied ==
    Ready =>
        LET r == reset(args, self)
            posed(j) == IsActuated(j) /\ j \in DOMAIN args.init_pose
        IN  /\ \A j \in ModelJoints :
                   r.self.physics.qpos[j] = IF posed(j) THEN args.init_pose[j] ELSE 0
            /\ DOMAIN r.obs.joints = 1..Len(args.actuated_joints)
            /\ \A i \in 1..Len(args.actuated_joints) :
                   r.obs.joints[i] = IF posed(args.actuated_joints[i])
                                     THEN args.init_pose[args.actuated_joints[i]] ELSE 0
            /\ ret.op = "reset" =>
                   /\ ret.raised = "nothing"
                   /\ ret.out.obs = r.obs
                   /\ self.physics.qpos = r.self.physics.qpos

\* a reset after steps, with a pose naming an actuated joint, a joint that is
\* not actuated and a joint the model does not have, and an actuated joint left out
C12_Witness ==
    /\ Ready
    /\ ret.op = "reset"
    /\ ret.pre.op = "step"
    /\ ret.pre.curr_time > 0
    /\ args.actuated_joints = <<"joint_LFCoxa", "joint_LFFemur">>
    /\ DOMAIN args.init_pose = {"joint_LFCoxa", "joint_LFTarsus2", "joint_RHTibia"}
    /\ self.physics.qpos =
           [j \in ModelJoints |-> IF j = "joint_LFCoxa" THEN 1 ELSE 0]

\* C13: save_video(path) in a mode other than "saved" logs a warning and makes
\* no directory and opens or writes no video file; in "saved" mode the file at
\* the path holds every buffered frame in capture order and the buffer is left
\* as it was
C13_SaveVideoStep ==
    ret'.op = "save_video" =>
        IF args.render_mode # "saved"
        THEN ret'.out.warned /\ disk' = disk
        ELSE /\ disk'.files[ret'.out.path] = self._frames
             /\ self'._frames = self._frames
C13_SaveVideoOnlyWhenSaved == [][C13_SaveVideoStep]_vars

\* C14: every observation returned by reset or step has, for each field, the
\* shape declared for it in the observation space built at construction, and
\* the keys and shapes are the same for every observation of a run
C14_ObservationMatchesSpace ==
    (Ready /\ ret.op \in {"__init__", "reset", "step"}) =>
        /\ DOMAIN self.observation_space \subseteq ObservationKeys(args)
        /\ \A k \in DOMAIN self.observation_space :
               ObservationShapes(args)[k] = self.observation_space[k]

\* C15: construction fails, leaving no usable environment, whenever a requested
\* actuated joint has no actuator for the selected control mode and whenever
\* the control mode is not "position", "velocity" or "torque", for every list
\* of actuated joints, the empty one included
MissingActuator ==
    \E i \in 1..Len(args.actuated_joints) :
        FindActuator(args.control, args.actuated_joints[i]) = None
UnknownControl == args.control \notin {"position", "velocity", "torque"}
C15_BadActuationRejected ==
    (MissingActuator \/ UnknownControl) =>
        /\ pc \notin {"declared", "instantiated", "ready"}
        /\ pc = "failed" => ret.raised # "nothing"

\* C16: the environment loop has no terminal state: every step returns reward
\* 0, terminated false, truncated false and an empty info record, and after
\* any sequence of step, reset and render calls the environment is still the
\* ready one on which step and reset can be called: a step from there advances
\* the time and a reset from there gives the fresh episode
C16_StepAndResetDefined ==
    Ready =>
        /\ \A action \in Actions :
               LET r == step(args, self, action)
               IN  /\ r.reward = 0 /\ ~r.terminated /\ ~r.truncated /\ r.info = get_info
                   /\ r.self.curr_time = NextTime(self.curr_time, args.timestep)
        /\ reset(args, self).self.curr_time = 0
C16_StaysReady ==
    Ready =>
        /\ pc' = "ready"
        /\ ret'.op \in {"step", "reset"} => ret'.raised = "nothing"
        /\ ret'.op = "step" =>
               /\ ret'.out.reward = 0
               /\ ~ret'.out.terminated
               /\ ~ret'.out.truncated
               /\ ret'.out.info = get_info
C16_NoTerminalState == []C16_StepAndResetDefined /\ [][C16_StaysReady]_vars
C16_Witness ==
    /\ Ready
    /\ ret.op = "step"
    /\ Len(self._frames) >= 2
    /\ calls.step = MaxSteps
    /\ ret.out.reward = 0
    /\ ~ret.out.terminated
    /\ ~ret.out.truncated
    /\ ret.out.info = get_info

\* ------------------------------------------------------- floor contacts (SpecFloor)
\* the geometry list the floor-contact enumeration is given
FloorInput == _parse_collision_specs(args.floor_collisions).value
\* the geometries of the scene as the enumeration met them, and as it left them
SceneBefore == ArenaFindAllGeoms(args.arena_geoms)
SceneAfter == ArenaFindAllGeoms(self.arena_geoms)
\* ground-like: the name is absent, or holds neither "visual" nor "collision"
GroundLike ==
    { g \in 1..Len(SceneBefore) :
        \/ ~SceneBefore[g].named
        \/ /\ ~Contains(<<"visual">>, SceneBefore[g].name)
           /\ ~Contains(<<"collision">>, SceneBefore[g].name) }

\* C17: the floor-contact enumeration registers exactly one pair for every
\* combination of a ground-like geometry and a geometry of the
\* floor-collidable set, and no other pair; their number is the number of
\* ground-like geometries times the size of the set
C17_FloorPairs ==
    ContactsDeclared =>
        LET floor == FloorInput
            scene == SceneAfter
            ground == GroundLike
            registered == [k \in 1..Len(self.floor_contacts) |->
                             <<self.floor_contacts[k].geom2, self.floor_contacts[k].geom1>>]
            combination(g, j) == <<scene[g].name, <<"Animat", "/">> \o floor[j]>>
        IN  /\ Len(registered) = Cardinality(ground) * Len(floor)
            /\ \A g \in ground : \A j \in 1..Len(floor) :
                   Cardinality({k \in 1..Len(registered) : registered[k] = combination(g, j)}) = 1
            /\ \A k \in 1..Len(registered) :
                   \E g \in ground : \E j \in 1..Len(floor) : registered[k] = combination(g, j)
C17_Witness ==
    /\ ContactsDeclared
    /\ Cardinality(GroundLike) = 2
    /\ Len(args.arena_geoms) = 3
    /\ \E g \in 1..3 : ~args.arena_geoms[g].named
    /\ \E g \in 1..3 : args.arena_geoms[g].named /\ g \notin GroundLike
    /\ Len(FloorInput) = 2
    /\ Len(self.floor_contacts) = 4

\* C18: the friction of every registered floor-contact pair is the 5-vector
\* (s, s, t, r, r), where (s, t, r) is the elementwise arithmetic mean of the
\* fly's friction triple and the terrain's friction triple (a value v = n/d is
\* the mean of a and b when 2n = (a + b)d)
C18_FloorFriction ==
    ContactsDeclared =>
        \A k \in 1..Len(self.floor_contacts) :
            LET f == self.floor_contacts[k].friction
                IsMean(v, c) == v[2] # 0 /\ 2 * v[1] = (args.friction[c] + args.arena_friction[c]) * v[2]
            IN  /\ Len(f) = 5
                /\ IsMean(f[1], 1) /\ IsMean(f[2], 1)
                /\ IsMean(f[3], 2)
                /\ IsMean(f[4], 3) /\ IsMean(f[5], 3)
C18_Witness ==
    /\ ContactsDeclared
    /\ args.friction = <<10000, 50, 1>>
    /\ args.arena_friction = <<3, 1, 4>>
    /\ Len(self.floor_contacts) >= 2
    /\ self.floor_contacts[2].friction =
           << <<10003, 2>>, <<10003, 2>>, <<51, 2>>, <<5, 2>>, <<5, 2>> >>

\* C19: after the floor-contact enumeration every ground geometry that had no
\* name carries the name groundblock_k, k counting the nameless geometries
\* from 0 in enumeration order, and no two geometries of the scene share a
\* name, whatever the floor-collidable set, so that the scan of the geometry
\* names at physics set-up never meets a nameless geometry
C19_GroundBlocksNamed ==
    /\ ContactsDeclared =>
           /\ \A g \in 1..Len(args.arena_geoms) :
                  ~args.arena_geoms[g].named =>
                      self.arena_geoms[g] =
                          [named |-> TRUE,
                           name |-> <<"groundblock", "_",
                                      ToString(Cardinality({h \in 1..(g - 1) :
                                                              ~args.arena_geoms[h].named}))>>]
           /\ \A g, h \in 1..Len(self.arena_geoms) :
                  g # h => self.arena_geoms[g] # self.arena_geoms[h]
    /\ ~(pc = "failed" /\ ret.raised = "TypeError")

\* C20: construction follows the two-phase order: every edit of the scene (eye
\* cameras, actuator gain, arena spawn, contact pairs, sensors) is made before
\* the engine is instantiated and none after; friction, the stiffness and
\* damping of the actuated joints and gravity are set after the instantiation
\* and none before; then the tarsi are made compliant, only then the initial
\* pose is applied, and the first reset comes last
Pos(name) == CHOOSE i \in 1..Len(trace) : trace[i].edit = name
Made(name) == \E i \in 1..Len(trace) : trace[i].edit = name
StructuralEdits ==
    {"eye_cameras", "actuator_gain", "arena_spawn", "floor_contacts", "self_contacts", "sensors"}
NumericEdits == {"friction", "joint_stiffness_damping", "gravity"}
C20_TwoPhaseOrder ==
    /\ \A i, j \in 1..Len(trace) : (i # j) => trace[i] # trace[j]
    /\ \A i \in 1..Len(trace) :
           /\ trace[i].edit \in StructuralEdits =>
                  /\ ~Made("instantiate") \/ i < Pos("instantiate")
                  /\ trace[i].on = "mjcf"
           /\ trace[i].edit \in NumericEdits \cup {"compliant_tarsus", "init_pose", "reset"} =>
                  /\ Made("instantiate") /\ Pos("instantiate") < i
                  /\ trace[i].on = "physics"
           /\ trace[i].on = "mjcf" => ~Made("instantiate") \/ i < Pos("instantiate")
           /\ trace[i].edit \in NumericEdits => ~Made("compliant_tarsus") \/ i < Pos("compliant_tarsus")
    /\ Made("init_pose") => Made("compliant_tarsus") /\ Pos("compliant_tarsus") < Pos("init_pose")
    /\ Made("reset") => Made("init_pose") /\ Pos("init_pose") < Pos("reset")
    /\ Ready =>
           /\ Pos("reset") = Len(trace)
           /\ \A e \in (StructuralEdits \ {"eye_cameras", "actuator_gain"})
                          \cup (NumericEdits \ {"joint_stiffness_damping"})
                          \cup {"instantiate", "compliant_tarsus"} : Made(e)
           /\ args.enable_vision => Made("eye_cameras")
           /\ args.actuated_joints # <<>> => Made("actuator_gain") /\ Made("joint_stiffness_damping")
C20_Witness ==
    /\ Ready
    /\ ret.op = "__init__"
    /\ args.enable_vision
    /\ [i \in 1..Len(trace) |-> trace[i].edit] =
           <<"eye_cameras", "actuator_gain", "arena_spawn", "timestep", "floor_contacts",
             "self_contacts", "sensors", "instantiate", "friction",
             "joint_stiffness_damping", "gravity", "compliant_tarsus", "init_pose", "reset">>

\* ------------------------------------------------------- vision across resets
\* C21: with vision enabled the observation read made by reset always takes a
\* fresh sample (the first marker of the episode is "update happened"), so the
\* vision field of every observation returned by reset or step is a reading,
\* never the cleared value, and it is a reading taken in the running episode:
\* the one a reset returns is the image of the state the reset has set up
C21_ResetSamplesVision ==
    (Ready /\ args.enable_vision) =>
        /\ self._vision_update_mask # <<>>
        /\ Head(self._vision_update_mask) = TRUE
        /\ self.curr_visual_input # None
        /\ self._last_vision_update_time # NegInf
        /\ 0 <= self._last_vision_update_time
        /\ self._last_vision_update_time <= self.curr_time
        /\ ret.op \in {"__init__", "reset", "step"} =>
               /\ ret.out.obs.vision # None
               /\ ret.out.obs.vision = self.curr_visual_input
        /\ ret.op \in {"__init__", "reset"} =>
               /\ self._vision_update_mask = <<TRUE>>
               /\ self._last_vision_update_time = 0
               /\ ret.out.obs.vision =
                      [none |-> FALSE, camera |-> "eyes", qpos |-> self.physics.qpos]
        /\ LET r == reset(args, self)
           IN  /\ r.self._vision_update_mask = <<TRUE>>
               /\ r.obs.vision # None
               /\ r.obs.vision =
                      [none |-> FALSE, camera |-> "eyes", qpos |-> r.self.physics.qpos]
C21_Witness ==
    /\ Ready
    /\ args.enable_vision
    /\ ret.op = "reset"
    /\ ret.pre.op = "step"
    /\ ret.pre.curr_time > 0
    /\ self._vision_update_mask = <<TRUE>>
    /\ ret.out.obs.vision = [none |-> FALSE, camera |-> "eyes", qpos |-> PosedQpos]

\* ------------------------------------------------------------ frame conditions
\* what construction has fixed: the collision sets, the registered contact
\* pairs with their names, the scene geometries and the declared spaces
Declared(s) ==
    <<s.floor_collisions, s.self_collisions, s.floor_contacts, s.floor_contact_names,
      s.self_contacts, s.self_contact_names, s.arena_geoms, s.observation_space>>
\* the rendering part and the vision part of the run state
RenderState(s) == <<s._frames, s._last_render_time>>
VisionState(s) == <<s.curr_visual_input, s._last_vision_update_time, s._vision_update_mask>>

\* C22: each operation touches only its own part of the run state: a step
\* leaves the frame buffer and the last-render time as they were; a render
\* leaves the elapsed time, the vision reading, the last-sample time and the
\* vision mask as they were; an observation read with vision disabled changes
\* nothing; and no step, reset, render or observation read changes the contact
\* pairs or the declarations fixed at construction
C22_OperatorsKeep ==
    Ready =>
        /\ \A action \in Actions :
               LET r == step(args, self, action).self
               IN  RenderState(r) = RenderState(self) /\ Declared(r) = Declared(self)
        /\ LET r == render(args, self).self
           IN  /\ r.curr_time = self.curr_time
               /\ VisionState(r) = VisionState(self)
               /\ Declared(r) = Declared(self)
        /\ LET r == get_observation(args, self).self
           IN  /\ ~args.enable_vision => r = self
               /\ Declared(r) = Declared(self)
        /\ Declared(reset(args, self).self) = Declared(self)
C22_StepsKeep ==
    Ready =>
        /\ ret'.op = "step" => RenderState(self') = RenderState(self)
        /\ ret'.op = "render" =>
               /\ self'.curr_time = self.curr_time
               /\ VisionState(self') = VisionState(self)
        /\ (ret'.op = "get_observation" /\ ~args.enable_vision) => self' = self
        /\ Declared(self') = Declared(self)
C22_FrameConditions == []C22_OperatorsKeep /\ [][C22_StepsKeep]_vars
C22_Witness ==
    /\ Ready
    /\ args.enable_vision
    /\ ret.op = "render"
    /\ self.curr_time > 0
    /\ self._last_render_time = self.curr_time
    /\ Len(self._frames) >= 2
    /\ Len(self._vision_update_mask) >= 3
    /\ self._last_vision_update_time > 0
    /\ self.floor_contacts # <<>>
    /\ self.self_contacts # <<>>

====
